---------------------------- MODULE Spec2Model ----------------------------
(***************************************************************************)
(* Model of the MCP + A2A incident workflow engine (src/src/aug1main.py):  *)
(* the Context registry (MCPContext, MCPRegistry), the inter-stage         *)
(* messaging (A2AProtocol), the pipeline coordinator                       *)
(* (CompleteEnhancedWorkflowEngine) and its WebSocket broadcast; and of    *)
(* the step runner OrchestratorAgent (src/src/agents/orchestrator.py).     *)
(*                                                                         *)
(* Scheduling is asyncio's: one event loop, a coroutine runs without       *)
(* interruption from one suspension point (asyncio.sleep, ws.send_text) to *)
(* the next.  A pipeline whose pc is in Transient holds the loop; every    *)
(* other step waits until the loop is idle.  A notification task made by   *)
(* asyncio.create_task is the next callback the loop runs once its creator *)
(* suspends (the ready queue is FIFO), and its creator does not touch the  *)
(* subscriber list in between: the task copies the list as it is when the  *)
(* task is created, and is over at once when the list is empty.  Passes    *)
(* with the same subscribers left to send to act alike on every other      *)
(* variable: tasks is the set of what the running passes have left.        *)
(*                                                                         *)
(* Objects (Incident, AgentExecution, MCPContext) live in heaps that are   *)
(* sequences; an object's identity is its index.  uuid4 values are fresh   *)
(* indices.  Confidences are in hundredths (0.91 is 91).                   *)
(***************************************************************************)
EXTENDS Integers, Sequences, FiniteSets, TLC

\* ------------------------------------------------------------------ bounds
MaxIncidents == 2       \* Incident objects ever triggered
MaxWatched == 1         \* of them, with subscribers attached
MaxSubscribers == 2     \* WebSocket objects ever accepted
MaxFaults == 1          \* handler bodies that raise, over a whole run
MaxSwitches == 2        \* times the loop turns from one pipeline to another
MaxCalls == 4           \* direct API calls in the protocol harness

\* ----------------------------------------------------------- dictionaries
None == 0
EmptyId == -1            \* the "" an id field defaults to; ids are indices
EmptyDict == <<>>
Put(d, k, v) == [x \in (DOMAIN d) \cup {k} |-> IF x = k THEN v ELSE d[x]]
Del(d, k) == [x \in (DOMAIN d) \ {k} |-> d[x]]
Get(d, k, default) == IF k \in DOMAIN d THEN d[k] ELSE default

Min_unclamped(a, b) == b

Min(a, b) == IF a < b THEN a ELSE b
Range(s) == {s[n] : n \in DOMAIN s}
Remove(s, x) ==
    LET first == CHOOSE n \in DOMAIN s : s[n] = x /\ \A m \in 1..(n - 1) : s[m] # x
    IN  [n \in 1..(Len(s) - 1) |-> IF n < first THEN s[n] ELSE s[n + 1]]
Set(s, n, v) == [s EXCEPT ![n] = v]

\* --------------------------------------------------------------- constants
agent_sequence_swapped ==
    <<"rca", "monitoring", "pager", "ticketing", "email", "remediation", "validation">>

agent_sequence ==
    <<"monitoring", "rca", "pager", "ticketing", "email", "remediation", "validation">>
AgentIds == Range(agent_sequence)
NumAgents == Len(agent_sequence)
Receivers == AgentIds \cup {"unknown"}
IncidentTypes == {"database", "security", "network", "api"}
RelevantThreshold == 70
DefaultConfidence == 80
WS == 1..MaxSubscribers

VARIABLES
    incidents,                \* heap of Incident objects
    active_incidents,         \* engine.active_incidents: id -> Incident object
    incident_history,         \* engine.incident_history: list of Incident objects
    executions,               \* the AgentExecution objects: <<Incident, agent>> -> record
    agent_execution_history,  \* engine.agent_execution_history: agent -> list
    contexts,                 \* mcp_registry.contexts: context_id -> MCPContext
    message_queue,            \* a2a_protocol.message_queue: agent -> list
    message_history,          \* a2a_protocol.message_history
    active_collaborations,    \* a2a_protocol.active_collaborations: id -> session
    websocket_connections,    \* engine.websocket_connections
    socket,                   \* state of each WebSocket object
    workflow,                 \* frame of each _execute_complete_enhanced_workflow task
    tasks,                    \* _broadcast_mcp_update / _broadcast_a2a_update tasks
    loop,                     \* the pipeline the loop resumed last, and its turns
    delivered,                \* history: what get_messages returned, per agent
    published,                \* history: update_context calls, per context
    call,                     \* history: the last two direct API calls and their results
    orchestrator              \* the OrchestratorAgent object and its process() frame

vars == <<incidents, active_incidents, incident_history, executions,
          agent_execution_history, contexts, message_queue, message_history,
          active_collaborations, websocket_connections, socket, workflow, tasks,
          loop, delivered, published, call, orchestrator>>

engine_vars == <<incidents, active_incidents, incident_history, executions,
                 agent_execution_history, workflow, loop>>
a2a_vars == <<message_queue, message_history, active_collaborations>>
ws_vars == <<websocket_connections, socket>>

\* ------------------------------------------------------------- MCPContext
NewContext(incident_id) ==
    [incident_id |-> incident_id, context_version |-> 1,
     agent_insights |-> EmptyDict, confidence_scores |-> EmptyDict,
     shared_knowledge |-> {}]

update_context_stale(ctx, agent_id, new_data, confidence) ==
    [ctx EXCEPT
        !.agent_insights = Put(@, agent_id, [data |-> new_data, confidence |-> confidence]),
        !.confidence_scores = Put(@, agent_id, confidence),
        !.context_version = Cardinality(DOMAIN ctx.agent_insights) + 1]

update_context(ctx, agent_id, new_data, confidence) ==
    [ctx EXCEPT
        !.agent_insights = Put(@, agent_id, [data |-> new_data, confidence |-> confidence]),
        !.confidence_scores = Put(@, agent_id, confidence),
        !.context_version = @ + 1]

RECURSIVE SumOver(_, _)
SumOver(d, keys) ==
    IF keys = {} THEN 0
    ELSE LET k == CHOOSE x \in keys : TRUE IN d[k] + SumOver(d, keys \ {k})

\* A quotient of two floats, kept as the fraction it is the value of.
Fraction(num, den) == [num |-> num, den |-> den]
Zero == Fraction(0, 1)

get_contextual_insights_boundary(ctx, requesting_agent) ==
    [shared_knowledge |-> ctx.shared_knowledge,
     peer_insights |->
        [a \in {x \in DOMAIN ctx.agent_insights :
                    x # requesting_agent
                    /\ ctx.agent_insights[x].confidence >= RelevantThreshold}
            |-> ctx.agent_insights[a]],
     context_confidence |->
        IF DOMAIN ctx.confidence_scores # {}
        THEN Fraction(SumOver(ctx.confidence_scores, DOMAIN ctx.confidence_scores),
                      Cardinality(DOMAIN ctx.confidence_scores))
        ELSE Zero]

get_contextual_insights_peers(ctx, requesting_agent) ==
    LET peers == {x \in DOMAIN ctx.agent_insights :
                    x # requesting_agent
                    /\ ctx.agent_insights[x].confidence > RelevantThreshold}
    IN  [shared_knowledge |-> ctx.shared_knowledge,
         peer_insights |-> [a \in peers |-> ctx.agent_insights[a]],
         context_confidence |->
            IF peers # {}
            THEN Fraction(SumOver(ctx.confidence_scores, peers), Cardinality(peers))
            ELSE Zero]

get_contextual_insights(ctx, requesting_agent) ==
    [shared_knowledge |-> ctx.shared_knowledge,
     peer_insights |->
        [a \in {x \in DOMAIN ctx.agent_insights :
                    x # requesting_agent
                    /\ ctx.agent_insights[x].confidence > RelevantThreshold}
            |-> ctx.agent_insights[a]],
     context_confidence |->
        IF DOMAIN ctx.confidence_scores # {}
        THEN Fraction(SumOver(ctx.confidence_scores, DOMAIN ctx.confidence_scores),
                      Cardinality(DOMAIN ctx.confidence_scores))
        ELSE Zero]

\* ------------------------------------------------------------ A2AProtocol
\* The protocol object as a record, so that its methods compose.
Protocol(mq, mh, ac) ==
    [message_queue |-> mq, message_history |-> mh, active_collaborations |-> ac]

A2AMessage(p, sender, receiver, type, content, requires_response, correlation_id) ==
    [message_id |-> Len(p.message_history) + 1,
     sender_agent_id |-> sender, receiver_agent_id |-> receiver,
     message_type |-> type, content |-> content,
     requires_response |-> requires_response, correlation_id |-> correlation_id]

send_message_unlogged(p, message) ==
    [p EXCEPT !.message_queue =
        Put(@, message.receiver_agent_id,
            Append(Get(@, message.receiver_agent_id, <<>>), message))]

send_message_replace(p, message) ==
    [p EXCEPT
        !.message_queue = Put(@, message.receiver_agent_id, <<message>>),
        !.message_history = Append(@, message)]

send_message_front(p, message) ==
    [p EXCEPT
        !.message_queue =
            Put(@, message.receiver_agent_id,
                <<message>> \o Get(@, message.receiver_agent_id, <<>>)),
        !.message_history = Append(@, message)]

send_message(p, message) ==
    [p EXCEPT
        !.message_queue =
            Put(@, message.receiver_agent_id,
                Append(Get(@, message.receiver_agent_id, <<>>), message)),
        !.message_history = Append(@, message)]

\* get_messages returns the list and leaves an empty one behind.
get_messages_result(p, agent_id) == Get(p.message_queue, agent_id, <<>>)

get_messages_keep(p, agent_id) ==
    [p EXCEPT !.message_queue = Put(@, agent_id, Get(@, agent_id, <<>>))]

get_messages(p, agent_id) ==
    [p EXCEPT !.message_queue = Put(@, agent_id, <<>>)]

RECURSIVE collaboration_requests_all(_, _, _, _)
collaboration_requests_all(p, initiator, participants, collab_id) ==
    IF participants = <<>> THEN p
    ELSE collaboration_requests_all(
            send_message(p,
               A2AMessage(p, initiator, Head(participants), "collaboration_request",
                          [collaboration_id |-> collab_id], TRUE, collab_id)),
            initiator, Tail(participants), collab_id)

RECURSIVE collaboration_requests(_, _, _, _)
collaboration_requests(p, initiator, participants, collab_id) ==
    IF participants = <<>> THEN p
    ELSE LET participant == Head(participants)
             q == IF participant # initiator
                  THEN send_message(p,
                         A2AMessage(p, initiator, participant, "collaboration_request",
                                    [collaboration_id |-> collab_id], TRUE, collab_id))
                  ELSE p
         IN  collaboration_requests(q, initiator, Tail(participants), collab_id)

new_collab_id(p) == Cardinality(DOMAIN p.active_collaborations) + 1

initiate_collaboration_reuse(p, initiator, participants) ==
    LET q == [p EXCEPT !.active_collaborations =
                Put(@, 1, [id |-> 1, initiator |-> initiator,
                           participants |-> participants, status |-> "active",
                           messages |-> <<>>])]
    IN  collaboration_requests(q, initiator, participants, 1)

initiate_collaboration(p, initiator, participants) ==
    LET collab_id == new_collab_id(p)
        q == [p EXCEPT !.active_collaborations =
                Put(@, collab_id,
                    [id |-> collab_id, initiator |-> initiator,
                     participants |-> participants, status |-> "active",
                     messages |-> <<>>])]
    IN  collaboration_requests(q, initiator, participants, collab_id)

\* _notify_updates runs once per send_message and once more per
\* initiate_collaboration: the number of callbacks p -> q has scheduled.
notifications(p, q) ==
    (Len(q.message_history) - Len(p.message_history))
    + (Cardinality(DOMAIN q.active_collaborations)
       - Cardinality(DOMAIN p.active_collaborations))


\* ---------------------------------------------------------- the event loop
Transient ==
    {"loop_head", "process", "loop_except", "loop_next", "complete", "finalize",
     "inner_except", "outer_except"}
Terminal == {"done", "crashed"}
Objects == DOMAIN incidents
LoopIdle == \A i \in Objects : workflow[i].pc \notin Transient

\* The loop resumes the suspended pipeline i.
Resume(i) ==
    /\ LoopIdle
    /\ loop.last \in {None, i} \/ loop.switches < MaxSwitches
    /\ loop' = [last |-> i,
                switches |-> IF loop.last \in {None, i} THEN loop.switches
                             ELSE loop.switches + 1]

\* asyncio.create_task(callback()) for n > 0 _notify_updates calls, and the
\* start of _broadcast_mcp_update / _broadcast_a2a_update:
\* `if self.websocket_connections:` then the copy of the list.
create_tasks(ts, n) ==
    IF n = 0 \/ websocket_connections = <<>> THEN ts
    ELSE ts \cup {websocket_connections}

\* One `await ws.send_text(...)` of a broadcast pass, with its `except:` arm.
SendOutcome(w) ==
    IF socket[w] = "open" THEN "sent"
    ELSE IF w \in Range(websocket_connections) THEN "removed"
    ELSE "ValueError"

AfterSend(w) ==
    IF SendOutcome(w) = "removed" THEN Remove(websocket_connections, w)
    ELSE websocket_connections

\* Where a _broadcast_workflow_update call returns to, and where its
\* exception is caught, per call site.
Ret_parked(site) == "parked"

Ret(site) ==
    CASE site = "started" -> "loop_head"
      [] site = "starting" -> "process"
      [] site = "outcome" -> "sleep"
      [] site = "error" -> "loop_next"
      [] site = "final" -> "finalize"
      [] site = "failed_inner" -> "done"
      [] site = "failed_outer" -> "done"

Exc(site) ==
    CASE site = "started" -> "outer_except"
      [] site = "starting" -> "loop_except"
      [] site = "outcome" -> "loop_except"
      [] site = "error" -> "outer_except"
      [] site = "final" -> "inner_except"
      [] site = "failed_inner" -> "outer_except"
      [] site = "failed_outer" -> "crashed"

_broadcast_workflow_update(f, site) ==
    IF websocket_connections = <<>>
    THEN [f EXCEPT !.pc = Ret(site), !.site = site]
    ELSE [f EXCEPT !.pc = "send", !.site = site, !.rest = websocket_connections]

\* ------------------------------------------------------------ subscribers
add_websocket_connection(w) ==
    /\ LoopIdle
    /\ socket[w] = "idle"
    /\ \A v \in 1..(w - 1) : socket[v] # "idle"
    /\ socket' = [socket EXCEPT ![w] = "open"]
    /\ websocket_connections' = Append(websocket_connections, w)
    /\ UNCHANGED <<orchestrator, engine_vars, contexts, a2a_vars, tasks, delivered, published, call>>

\* The client goes away: every later send to w raises.
Disconnect(w) ==
    /\ LoopIdle
    /\ socket[w] = "open"
    /\ socket' = [socket EXCEPT ![w] = "broken"]
    /\ UNCHANGED <<orchestrator, engine_vars, contexts, a2a_vars, websocket_connections, tasks,
                   delivered, published, call>>

\* The endpoint's `finally`, after the client has gone.  On a socket that
\* a broadcast pass has removed already it changes nothing.
remove_websocket_connection(w) ==
    /\ LoopIdle
    /\ socket[w] = "broken"
    /\ w \in Range(websocket_connections)
    /\ websocket_connections' = Remove(websocket_connections, w)
    /\ UNCHANGED <<orchestrator, engine_vars, contexts, a2a_vars, socket, tasks, delivered, published,
                   call>>

\* ----------------------------------------------------- notification tasks
\* A send of a notification pass completes; a ValueError from list.remove
\* ends the task.
TaskSend(rest) ==
    /\ LoopIdle
    /\ rest \in tasks
    /\ LET w == Head(rest)
           over == SendOutcome(w) = "ValueError" \/ Tail(rest) = <<>>
       IN  /\ websocket_connections' = AfterSend(w)
           /\ tasks' = (tasks \ {rest}) \cup (IF over THEN {} ELSE {Tail(rest)})
    /\ UNCHANGED <<orchestrator, engine_vars, contexts, a2a_vars, socket, delivered, published, call>>

\* ------------------------------------------------------------- the engine
NewIncident(id, incident_type, context_id) ==
    [id |-> id, incident_type |-> incident_type, status |-> "open",
     workflow_status |-> "in_progress", current_agent |-> "",
     completed_agents |-> <<>>, failed_agents |-> <<>>,
     executions |-> EmptyDict, mcp_context_id |-> context_id]

NewFrame_awaited ==
    [pc |-> "loop_head", idx |-> 1, site |-> "started", rest |-> <<>>, boost |-> 0]

NewFrame ==
    [pc |-> "created", idx |-> 1, site |-> "", rest |-> <<>>, boost |-> 0]

\* Incident.id is f"INC-{int(time.time())}": the second of the trigger, which
\* is the previous incident's second or a later one.
IncidentIds ==
    IF incidents = <<>> THEN {1}
    ELSE {incidents[Len(incidents)].id, incidents[Len(incidents)].id + 1}

get_context_unchecked(context_id) == context_id

get_context(context_id) == IF context_id \in DOMAIN contexts THEN context_id ELSE None

trigger_incident_workflow(id, incident_type, limit) ==
    /\ LoopIdle
    /\ Len(incidents) < limit
    /\ LET context_id == Len(contexts) + 1
           mcp_context == [NewContext(id) EXCEPT
                             !.shared_knowledge = {"incident_metadata", "baseline_context"}]
       IN  /\ contexts' = Append(contexts, mcp_context)
           /\ published' = Append(published, <<>>)
           /\ incidents' = Append(incidents, NewIncident(id, incident_type, context_id))
           /\ active_incidents' = Put(active_incidents, id, Len(incidents) + 1)
           /\ workflow' = Append(workflow, NewFrame)
           /\ tasks' = create_tasks(tasks, 1)
    /\ UNCHANGED <<orchestrator, incident_history, executions, agent_execution_history, a2a_vars,
                   ws_vars, loop, delivered, call>>

\* Lines 461-463: the task starts.
WorkflowStart(i) ==
    /\ workflow[i].pc = "created"
    /\ Resume(i)
    /\ incidents' = [incidents EXCEPT ![i].workflow_status = "in_progress"]
    /\ workflow' = [workflow EXCEPT ![i] = _broadcast_workflow_update(@, "started")]
    /\ UNCHANGED <<orchestrator, active_incidents, incident_history, executions,
                   agent_execution_history, contexts, a2a_vars, ws_vars, tasks,
                   delivered, published, call>>

\* A send of the pipeline's own broadcast pass completes.
WorkflowSend(i) ==
    /\ workflow[i].pc = "send"
    /\ Resume(i)
    /\ LET w == Head(workflow[i].rest)
           f == workflow[i]
       IN  /\ websocket_connections' = AfterSend(w)
           /\ workflow' = [workflow EXCEPT ![i] =
                 IF SendOutcome(w) = "ValueError"
                 THEN [f EXCEPT !.pc = Exc(f.site), !.rest = <<>>]
                 ELSE IF Tail(f.rest) = <<>>
                 THEN [f EXCEPT !.pc = Ret(f.site), !.rest = <<>>]
                 ELSE [f EXCEPT !.rest = Tail(f.rest)]]
    /\ UNCHANGED <<orchestrator, incidents, active_incidents, incident_history, executions,
                   agent_execution_history, contexts, a2a_vars, socket, tasks,
                   delivered, published, call>>

\* Lines 476-479: the head of the stage loop, or line 505 past its end.
LoopHead(i) ==
    /\ workflow[i].pc = "loop_head"
    /\ IF workflow[i].idx > NumAgents
       THEN /\ workflow' = [workflow EXCEPT ![i].pc = "complete"]
            /\ UNCHANGED incidents
       ELSE /\ incidents' = [incidents EXCEPT
                                ![i].current_agent = agent_sequence[workflow[i].idx]]
            /\ workflow' = [workflow EXCEPT ![i] = _broadcast_workflow_update(@, "starting")]
    /\ UNCHANGED <<orchestrator, loop, active_incidents, incident_history, executions,
                   agent_execution_history, contexts, a2a_vars, ws_vars, tasks,
                   delivered, published, call>>

\* _process_a2a_messages, lines 555-573, over the drained messages.
process_executions_any(ex, messages, agent_id, incident) ==
    [e \in DOMAIN ex |->
        IF e[2] = agent_id /\ messages # <<>>
        THEN [ex[e] EXCEPT !.status = "collaborating"] ELSE ex[e]]

RECURSIVE process_executions(_, _, _, _)
process_executions(ex, messages, agent_id, incident) ==
    IF messages = <<>> \/ agent_id \notin DOMAIN incident.executions THEN ex
    ELSE LET message == Head(messages)
             e == incident.executions[agent_id]
             counted == [ex EXCEPT ![e].a2a_messages_received = @ + 1]
             joined ==
                 IF message.message_type = "collaboration_request"
                 THEN [counted EXCEPT
                         ![e].collaboration_sessions =
                             Append(@, Get(message.content, "collaboration_id", None)),
                         ![e].status = "collaborating"]
                 ELSE counted
         IN  process_executions(joined, Tail(messages), agent_id, incident)

IsDataShare_any(message) == message.message_type # ""

IsDataShare(message) == message.message_type = "data_share"

RECURSIVE process_context(_, _)
process_context(ctx, messages) ==
    IF messages = <<>> THEN ctx
    ELSE LET message == Head(messages)
             shared ==
                 IF IsDataShare(message)
                 THEN update_context(ctx, message.sender_agent_id,
                                     Get(message.content, "data", <<"empty", 0>>),
                                     Get(message.content, "confidence", DefaultConfidence))
                 ELSE ctx
         IN  process_context(shared, Tail(messages))

\* The update_context calls that forwarding the drained messages makes.
Forwarded(messages) ==
    LET shares == SelectSeq(messages, IsDataShare)
    IN  [n \in 1..Len(shares) |->
            [agent_id |-> shares[n].sender_agent_id,
             data |-> Get(shares[n].content, "data", <<"empty", 0>>),
             confidence |-> Get(shares[n].content, "confidence", DefaultConfidence)]]

first_progress(agent_id) ==
    CASE agent_id = "monitoring" -> 15
      [] agent_id = "rca" -> 20
      [] agent_id = "pager" -> 30
      [] agent_id = "ticketing" -> 35
      [] agent_id = "email" -> 25
      [] agent_id = "remediation" -> 20
      [] agent_id = "validation" -> 25

progress_steps_short(agent_id, incident_type, boost) == <<first_progress(agent_id), 90>>

\* The values a handler body gives execution.progress, in order.
progress_steps(agent_id, incident_type, boost) ==
    CASE agent_id = "monitoring" ->
            <<15, CASE incident_type = "database" -> 35
                    [] incident_type = "security" -> 25
                    [] OTHER -> 40, 100>>
      [] agent_id = "rca" -> IF boost > 0 THEN <<20, 40, 100>> ELSE <<20, 100>>
      [] agent_id = "pager" -> <<30, 70, 100>>
      [] agent_id = "ticketing" -> <<35, 80, 100>>
      [] agent_id = "email" -> <<25, 65, 100>>
      [] agent_id = "remediation" -> <<20, 50, 100>>
      [] agent_id = "validation" -> <<25, 75, 100>>

AgentExecution(agent_id, incident_id) ==
    [agent_id |-> agent_id, incident_id |-> incident_id, status |-> "running",
     progress |-> first_progress(agent_id), error_message |-> "",
     a2a_messages_sent |-> 0, a2a_messages_received |-> 0,
     collaboration_sessions |-> <<>>]

\* Lines 482-485: the drain, then the handler up to its first asyncio.sleep.
ProcessAndInvoke(i) ==
    /\ workflow[i].pc = "process"
    /\ LET agent_id == agent_sequence[workflow[i].idx]
           incident == incidents[i]
           p == Protocol(message_queue, message_history, active_collaborations)
           messages == get_messages_result(p, agent_id)
           context_id == get_context(incident.mcp_context_id)
           ctx == IF context_id # None
                  THEN process_context(contexts[context_id], messages)
                  ELSE None
           reads_context == agent_id \in {"monitoring", "rca", "validation"}
           peers == IF context_id # None /\ reads_context
                    THEN DOMAIN get_contextual_insights(ctx, agent_id).peer_insights
                    ELSE {}
       IN  /\ message_queue' = get_messages(p, agent_id).message_queue
           /\ delivered' = [delivered EXCEPT ![agent_id] = @ \o messages]
           /\ contexts' = IF context_id # None
                          THEN [contexts EXCEPT ![context_id] = ctx] ELSE contexts
           /\ published' = IF context_id # None
                           THEN [published EXCEPT ![context_id] = @ \o Forwarded(messages)]
                           ELSE published
           /\ executions' =
                 Put(process_executions(executions, messages, agent_id, incident),
                     <<i, agent_id>>, AgentExecution(agent_id, incident.id))
           /\ workflow' = [workflow EXCEPT
                 ![i].pc = "handler",
                 ![i].boost = IF agent_id = "rca" /\ peers # {} THEN 18 ELSE 0]
    /\ UNCHANGED <<orchestrator, loop, incidents, active_incidents, incident_history,
                   agent_execution_history, message_history, active_collaborations,
                   ws_vars, tasks, call>>


\* ------------------------------------------------------ the stage handlers
RECURSIVE share_with(_, _, _, _, _)
share_with(p, sender, receivers, data, confidence) ==
    IF receivers = <<>> THEN p
    ELSE share_with(
            send_message(p, A2AMessage(p, sender, Head(receivers), "data_share",
                                       [data |-> data, confidence |-> confidence],
                                       FALSE, EmptyId)),
            sender, Tail(receivers), data, confidence)

request_from(p, sender, receiver, task) ==
    send_message(p, A2AMessage(p, sender, receiver, "collaboration_request",
                               [task |-> task], FALSE, EmptyId))

SharingTypes == {"security", "database", "network", "container"}

\* What a handler body does to the protocol (lines 603-648, 743-761,
\* 803-822, 974-992).
agent_messages(p, agent_id, incident, i, enhanced_confidence) ==
    CASE agent_id = "monitoring" /\ incident.incident_type = "database" ->
            initiate_collaboration(p, "monitoring", <<"rca">>)
      [] agent_id = "monitoring" /\ incident.incident_type = "security" ->
            share_with(p, "monitoring", <<"rca", "remediation">>, <<"threat_data", i>>, 92)
      [] agent_id = "rca" /\ incident.incident_type \in SharingTypes ->
            share_with(p, "rca", <<"remediation", "validation", "pager">>,
                       <<"rca_findings", i>>, enhanced_confidence)
      [] agent_id = "pager" ->
            request_from(p, "pager", "email", "coordinated_stakeholder_notification")
      [] agent_id = "remediation" ->
            request_from(p, "remediation", "validation",
                         "comprehensive_remediation_validation")
      [] OTHER -> p

\* The `execution.a2a_messages_sent += 1` statements the body runs.
counted_sends(agent_id, incident) ==
    CASE agent_id = "monitoring" /\ incident.incident_type = "security" -> 2
      [] agent_id = "rca" /\ incident.incident_type \in SharingTypes -> 3
      [] agent_id \in {"pager", "remediation"} -> 1
      [] OTHER -> 0

\* The confidence of the handler's own update_context call, None without one.
own_confidence(agent_id, enhanced_confidence) ==
    CASE agent_id = "monitoring" -> 91
      [] agent_id = "rca" -> enhanced_confidence
      [] agent_id = "remediation" -> 89
      [] agent_id = "validation" -> 96
      [] OTHER -> None

Faults == Cardinality({e \in DOMAIN executions : executions[e].status = "error"})

\* Lines 486-493: the Execution is stored and the stage is listed.
record_outcome(incident, agent_id, e, status) ==
    [incident EXCEPT
        !.executions = Put(@, agent_id, e),
        !.completed_agents = IF status = "success" THEN Append(@, agent_id) ELSE @,
        !.failed_agents = IF status = "success" THEN @ ELSE Append(@, agent_id)]

\* The rest of the handler after its sleeps, its return, and lines 486-494.
\* fault: the body raises before it sends or publishes; its `except` arm
\* makes the Execution an error.
Handler(i, faults) ==
    /\ workflow[i].pc = "handler"
    /\ Resume(i)
    /\ LET agent_id == agent_sequence[workflow[i].idx]
           e == <<i, agent_id>>
           incident == incidents[i]
           context_id == get_context(incident.mcp_context_id)
       IN
       \E fault \in IF Faults < faults THEN BOOLEAN ELSE {FALSE} :
       \E base_confidence \in IF agent_id = "rca" THEN {87, 97} ELSE {87} :
       \E resolution_successful \in IF agent_id = "validation" THEN BOOLEAN ELSE {TRUE} :
          LET enhanced_confidence == Min(99, base_confidence + workflow[i].boost)
              p == Protocol(message_queue, message_history, active_collaborations)
              q == IF fault THEN p
                   ELSE agent_messages(p, agent_id, incident, i, enhanced_confidence)
              status == IF fault THEN "error" ELSE "success"
              confidence == own_confidence(agent_id, enhanced_confidence)
              publishes == ~fault /\ confidence # None /\ context_id # None
              output == <<agent_id, i>>
              validated ==
                  IF agent_id = "validation" /\ ~fault
                  THEN [incident EXCEPT !.status =
                          IF resolution_successful THEN "resolved"
                          ELSE "partially_resolved"]
                  ELSE incident
          IN  /\ message_queue' = q.message_queue
              /\ message_history' = q.message_history
              /\ active_collaborations' = q.active_collaborations
              /\ tasks' = create_tasks(tasks, notifications(p, q))
              /\ contexts' =
                    IF publishes
                    THEN [contexts EXCEPT ![context_id] =
                            LET c == update_context(@, agent_id, output, confidence)
                            IN  IF agent_id = "validation"
                                THEN [c EXCEPT !.shared_knowledge =
                                        @ \cup {"final_resolution"}]
                                ELSE c]
                    ELSE contexts
              /\ published' =
                    IF publishes
                    THEN [published EXCEPT ![context_id] =
                            Append(@, [agent_id |-> agent_id, data |-> output,
                                       confidence |-> confidence])]
                    ELSE published
              /\ executions' = [executions EXCEPT ![e] =
                    IF fault
                    THEN [@ EXCEPT !.status = "error", !.error_message = "exception"]
                    ELSE [@ EXCEPT
                            !.status = "success",
                            !.progress =
                                LET steps == progress_steps(agent_id, incident.incident_type,
                                                            workflow[i].boost)
                                IN  steps[Len(steps)],
                            !.a2a_messages_sent = counted_sends(agent_id, incident),
                            !.collaboration_sessions =
                                IF DOMAIN q.active_collaborations
                                        # DOMAIN p.active_collaborations
                                THEN Append(@, new_collab_id(p)) ELSE @]]
              /\ incidents' = [incidents EXCEPT ![i] =
                    record_outcome(validated, agent_id, e, status)]
              /\ agent_execution_history' =
                    [agent_execution_history EXCEPT ![agent_id] = Append(@, e)]
              /\ workflow' = [workflow EXCEPT ![i] =
                    _broadcast_workflow_update(@, "outcome")]
    /\ UNCHANGED <<orchestrator, active_incidents, incident_history, ws_vars, delivered, call>>

\* Line 497 returns: the next iteration.
Wake(i) ==
    /\ workflow[i].pc = "sleep"
    /\ Resume(i)
    /\ workflow' = [workflow EXCEPT ![i].pc = "loop_head", ![i].idx = @ + 1]
    /\ UNCHANGED <<orchestrator, incidents, active_incidents, incident_history, executions,
                   agent_execution_history, contexts, a2a_vars, ws_vars, tasks,
                   delivered, published, call>>

\* Lines 499-502: `except Exception` inside the loop.
LoopExcept(i) ==
    /\ workflow[i].pc = "loop_except"
    /\ incidents' = [incidents EXCEPT
          ![i].failed_agents = Append(@, agent_sequence[workflow[i].idx])]
    /\ workflow' = [workflow EXCEPT ![i] = _broadcast_workflow_update(@, "error")]
    /\ UNCHANGED <<orchestrator, loop, active_incidents, incident_history, executions,
                   agent_execution_history, contexts, a2a_vars, ws_vars, tasks,
                   delivered, published, call>>

\* The `except` arm is done: the for loop takes the next stage.
LoopNext(i) ==
    /\ workflow[i].pc = "loop_next"
    /\ workflow' = [workflow EXCEPT ![i].pc = "loop_head", ![i].idx = @ + 1]
    /\ UNCHANGED <<orchestrator, loop, incidents, active_incidents, incident_history, executions,
                   agent_execution_history, contexts, a2a_vars, ws_vars, tasks,
                   delivered, published, call>>

final_status(incident) ==
    IF Len(incident.failed_agents) = 0 THEN "resolved" ELSE "partially_resolved"

\* _complete_enhanced_workflow, lines 516-521.
Complete(i) ==
    /\ workflow[i].pc = "complete"
    /\ incidents' = [incidents EXCEPT
          ![i].workflow_status = "completed",
          ![i].current_agent = "",
          ![i].status = final_status(incidents[i])]
    /\ workflow' = [workflow EXCEPT ![i] = _broadcast_workflow_update(@, "final")]
    /\ UNCHANGED <<orchestrator, loop, active_incidents, incident_history, executions,
                   agent_execution_history, contexts, a2a_vars, ws_vars, tasks,
                   delivered, published, call>>

\* Lines 523-524: the append, then `del`, which raises KeyError on a
\* missing id.
Finalize(i) ==
    /\ workflow[i].pc = "finalize"
    /\ incident_history' = Append(incident_history, i)
    /\ IF incidents[i].id \in DOMAIN active_incidents
       THEN /\ active_incidents' = Del(active_incidents, incidents[i].id)
            /\ workflow' = [workflow EXCEPT ![i].pc = "done"]
       ELSE /\ UNCHANGED active_incidents
            /\ workflow' = [workflow EXCEPT ![i].pc = "inner_except"]
    /\ UNCHANGED <<orchestrator, loop, incidents, executions, agent_execution_history, contexts, a2a_vars,
                   ws_vars, tasks, delivered, published, call>>

mark_failed_workflow(incident) ==
    [incident EXCEPT !.workflow_status = "failed"]

mark_failed(incident) ==
    [incident EXCEPT !.workflow_status = "failed", !.status = "failed"]

\* Lines 526-530.
InnerExcept(i) ==
    /\ workflow[i].pc = "inner_except"
    /\ incidents' = [incidents EXCEPT ![i] = mark_failed(@)]
    /\ workflow' = [workflow EXCEPT ![i] = _broadcast_workflow_update(@, "failed_inner")]
    /\ UNCHANGED <<orchestrator, loop, active_incidents, incident_history, executions,
                   agent_execution_history, contexts, a2a_vars, ws_vars, tasks,
                   delivered, published, call>>

\* Lines 507-511.
OuterExcept(i) ==
    /\ workflow[i].pc = "outer_except"
    /\ incidents' = [incidents EXCEPT ![i] = mark_failed(@)]
    /\ workflow' = [workflow EXCEPT ![i] = _broadcast_workflow_update(@, "failed_outer")]
    /\ UNCHANGED <<orchestrator, loop, active_incidents, incident_history, executions,
                   agent_execution_history, contexts, a2a_vars, ws_vars, tasks,
                   delivered, published, call>>

\* ------------------------------------------------------ OrchestratorAgent
\* src/src/agents/orchestrator.py.  __init__: no agent registered, status
\* IDLE (BaseAgent.__init__); no process() call made yet.
OrchestratorAgent ==
    [agents |-> {}, status |-> "idle", pc |-> "idle", step |-> 0,
     workflow_results |-> <<>>, visited |-> <<>>, result |-> <<>>, runs |-> 0]

workflow_steps == <<"monitoring", "rca", "pager", "ticketing", "email">>

\* `if result.get('status') == 'error': ... break`
Stops_never(status) == FALSE

Stops(status) == status = "error"

\* Lines 43-47: past the loop.
Return(o) ==
    [o EXCEPT !.status = "success", !.pc = "returned", !.step = 0,
              !.result = <<[status |-> "success",
                            workflow_results |-> o.workflow_results]>>]

\* Lines 49-52: the `except Exception` arm.
Raise(o) ==
    [o EXCEPT !.status = "error", !.pc = "returned", !.step = 0,
              !.result = <<[status |-> "error"]>>]

\* The for loop from the step of index `from` on, up to the next await:
\* unregistered steps are passed over, the first registered one is called.
\* visited is the history of the steps the loop has looked at.
Advance(o, from) ==
    LET registered == {n \in from..Len(workflow_steps) : workflow_steps[n] \in o.agents}
        k == IF registered = {} THEN Len(workflow_steps) + 1
             ELSE CHOOSE n \in registered : \A m \in registered : n <= m
        skipped == [n \in 1..(k - from) |->
                       [step |-> workflow_steps[from + n - 1], kind |-> "skipped"]]
    IN  IF registered = {}
        THEN Return([o EXCEPT !.visited = @ \o skipped])
        ELSE [o EXCEPT !.pc = "await", !.step = k,
                       !.visited = (@ \o skipped)
                                   \o <<[step |-> workflow_steps[k], kind |-> "invoked"]>>]

AgentNames == {"monitoring", "rca", "pager", "ticketing", "email", "validation"}
MaxRuns == 2

rest_vars == <<incidents, active_incidents, incident_history, executions,
               agent_execution_history, contexts, message_queue, message_history,
               active_collaborations, websocket_connections, socket, workflow, tasks,
               loop, delivered, published, call>>

register_agent(name) ==
    /\ name \notin orchestrator.agents
    /\ orchestrator' = [orchestrator EXCEPT !.agents = @ \cup {name}]
    /\ UNCHANGED rest_vars

\* process(data) from its call to its first await or its return.  data_ok:
\* data has a get method; otherwise line 26 raises.
process(data_ok) ==
    /\ orchestrator.pc \in {"idle", "returned"}
    /\ orchestrator.runs < MaxRuns
    /\ LET o == [orchestrator EXCEPT !.status = "running", !.runs = @ + 1,
                                     !.workflow_results = <<>>, !.visited = <<>>,
                                     !.result = <<>>]
       IN  orchestrator' = IF data_ok THEN Advance(o, 1) ELSE Raise(o)
    /\ UNCHANGED rest_vars

\* The awaited agent's process returns a result of the given status or
\* raises; lines 37-41 and on to the next await or the return.
StepReturns(outcome) ==
    /\ orchestrator.pc = "await"
    /\ LET step == workflow_steps[orchestrator.step]
           o == [orchestrator EXCEPT
                    !.workflow_results = Append(@, [step |-> step, status |-> outcome])]
       IN  orchestrator' =
              IF outcome = "raise" THEN Raise(orchestrator)
              ELSE IF Stops(outcome) THEN Return(o)
              ELSE Advance(o, orchestrator.step + 1)
    /\ UNCHANGED rest_vars

Outcomes == {"success", "error", "raise"}

NextOrch ==
    \/ \E name \in AgentNames : register_agent(name)
    \/ \E data_ok \in BOOLEAN : process(data_ok)
    \/ \E outcome \in Outcomes : StepReturns(outcome)

\* ---------------------------------------------------------- specification
Init ==
    /\ incidents = <<>>
    /\ active_incidents = EmptyDict
    /\ incident_history = <<>>
    /\ executions = EmptyDict
    /\ agent_execution_history = [a \in AgentIds |-> <<>>]
    /\ contexts = <<>>
    /\ message_queue = EmptyDict
    /\ message_history = <<>>
    /\ active_collaborations = EmptyDict
    /\ websocket_connections = <<>>
    /\ socket = [w \in WS |-> "idle"]
    /\ workflow = <<>>
    /\ tasks = {}
    /\ loop = [last |-> None, switches |-> 0]
    /\ delivered = [a \in Receivers |-> <<>>]
    /\ published = <<>>
    /\ call = [n |-> 0, op |-> "", agent_id |-> "", result |-> <<>>,
               before |-> [op |-> "", agent_id |-> "", result |-> <<>>]]
    /\ orchestrator = OrchestratorAgent

\* One incident, watched by subscribers that come and go; handlers may raise.
Next ==
    \/ \E id \in IncidentIds, t \in IncidentTypes :
          trigger_incident_workflow(id, t, MaxWatched)
    \/ \E i \in Objects : WorkflowStart(i)
    \/ \E i \in Objects : WorkflowSend(i)
    \/ \E i \in Objects : LoopHead(i)
    \/ \E i \in Objects : ProcessAndInvoke(i)
    \/ \E i \in Objects : Handler(i, MaxFaults)
    \/ \E i \in Objects : Wake(i)
    \/ \E i \in Objects : LoopExcept(i)
    \/ \E i \in Objects : LoopNext(i)
    \/ \E i \in Objects : Complete(i)
    \/ \E i \in Objects : Finalize(i)
    \/ \E i \in Objects : InnerExcept(i)
    \/ \E i \in Objects : OuterExcept(i)
    \/ \E rest \in tasks : TaskSend(rest)
    \/ \E w \in WS : add_websocket_connection(w)
    \/ \E w \in WS : Disconnect(w)
    \/ \E w \in WS : remove_websocket_connection(w)

Spec == Init /\ [][Next]_vars

\* The event loop runs every task that is ready: an awaited sleep, send or
\* handler returns or raises, and the coroutine takes its next step.
PipelineStep(i) ==
    \/ WorkflowStart(i)
    \/ WorkflowSend(i)
    \/ LoopHead(i)
    \/ ProcessAndInvoke(i)
    \/ Handler(i, MaxFaults)
    \/ Wake(i)
    \/ LoopExcept(i)
    \/ LoopNext(i)
    \/ Complete(i)
    \/ Finalize(i)
    \/ InnerExcept(i)
    \/ OuterExcept(i)

\* The run of one incident of a type whose handlers use both the protocol
\* and the Context, with everything that can make a broadcast raise.
LiveTypes == {"database"}

NextLive ==
    \/ \E id \in IncidentIds, t \in LiveTypes :
          trigger_incident_workflow(id, t, MaxWatched)
    \/ \E i \in Objects : WorkflowStart(i)
    \/ \E i \in Objects : WorkflowSend(i)
    \/ \E i \in Objects : LoopHead(i)
    \/ \E i \in Objects : ProcessAndInvoke(i)
    \/ \E i \in Objects : Handler(i, MaxFaults)
    \/ \E i \in Objects : Wake(i)
    \/ \E i \in Objects : LoopExcept(i)
    \/ \E i \in Objects : LoopNext(i)
    \/ \E i \in Objects : Complete(i)
    \/ \E i \in Objects : Finalize(i)
    \/ \E i \in Objects : InnerExcept(i)
    \/ \E i \in Objects : OuterExcept(i)
    \/ \E rest \in tasks : TaskSend(rest)
    \/ \E w \in WS : add_websocket_connection(w)
    \/ \E w \in WS : Disconnect(w)
    \/ \E w \in WS : remove_websocket_connection(w)

SpecLive == Init /\ [][NextLive]_vars /\ WF_vars(\E i \in Objects : PipelineStep(i))

\* Several incidents at once on one engine. No subscriber is attached and no
\* handler raises, so no broadcast sends anything and neither except clause of
\* the stage loop is entered.
NextConc ==
    \/ \E id \in IncidentIds, t \in IncidentTypes :
          trigger_incident_workflow(id, t, MaxIncidents)
    \/ \E i \in Objects : WorkflowStart(i)
    \/ \E i \in Objects : LoopHead(i)
    \/ \E i \in Objects : ProcessAndInvoke(i)
    \/ \E i \in Objects : Handler(i, 0)
    \/ \E i \in Objects : Wake(i)
    \/ \E i \in Objects : Complete(i)
    \/ \E i \in Objects : Finalize(i)
    \/ \E i \in Objects : InnerExcept(i)

SpecConc == Init /\ [][NextConc]_vars

\* ------------------------------------------------- the protocol, called directly
MessageTypes == {"info_request", "data_share"}

Called(op, agent_id, result) ==
    /\ call.n < MaxCalls
    /\ call' = [n |-> call.n + 1, op |-> op, agent_id |-> agent_id, result |-> result,
                before |-> [op |-> call.op, agent_id |-> call.agent_id,
                            result |-> call.result]]

ApiSend(sender, receiver, type) ==
    /\ LET p == Protocol(message_queue, message_history, active_collaborations)
           q == send_message(p, A2AMessage(p, sender, receiver, type,
                                           [data |-> <<"data", call.n>>], FALSE, EmptyId))
       IN  /\ message_queue' = q.message_queue
           /\ message_history' = q.message_history
           /\ tasks' = create_tasks(tasks, notifications(p, q))
    /\ Called("send_message", receiver, <<>>)
    /\ UNCHANGED <<orchestrator, engine_vars, contexts, active_collaborations, ws_vars, delivered,
                   published>>

ApiDrain(agent_id) ==
    /\ LET p == Protocol(message_queue, message_history, active_collaborations)
       IN  /\ message_queue' = get_messages(p, agent_id).message_queue
           /\ delivered' = [delivered EXCEPT ![agent_id] = @ \o get_messages_result(p, agent_id)]
           /\ Called("get_messages", agent_id, get_messages_result(p, agent_id))
    /\ UNCHANGED <<orchestrator, engine_vars, contexts, message_history, active_collaborations,
                   ws_vars, tasks, published>>

ApiCollaborate(initiator, participants) ==
    /\ LET p == Protocol(message_queue, message_history, active_collaborations)
           q == initiate_collaboration(p, initiator, participants)
       IN  /\ message_queue' = q.message_queue
           /\ message_history' = q.message_history
           /\ active_collaborations' = q.active_collaborations
           /\ tasks' = create_tasks(tasks, notifications(p, q))
           /\ Called("initiate_collaboration", initiator, <<new_collab_id(p)>>)
    /\ UNCHANGED <<orchestrator, engine_vars, contexts, ws_vars, delivered, published>>

Senders == {"monitoring"}
Drainers == {"rca", "validation", "unknown"}
Initiators == {"rca"}
ParticipantLists == {<<"remediation", "validation">>, <<"rca", "validation">>, <<"rca">>}

NextA2A ==
    \/ \E sender \in Senders, receiver \in Drainers, type \in MessageTypes :
          ApiSend(sender, receiver, type)
    \/ \E agent_id \in Drainers : ApiDrain(agent_id)
    \/ \E initiator \in Initiators, participants \in ParticipantLists :
          ApiCollaborate(initiator, participants)

SpecA2A == Init /\ [][NextA2A]_vars

\* ------------------------------------------------- one Context, called directly
Confidences == {70, 71, 95}
Requesters == {"monitoring", "rca", "unknown"}

\* A Context as MCPRegistry.create_context leaves it.
InitMCP ==
    /\ incidents = <<>>
    /\ active_incidents = EmptyDict
    /\ incident_history = <<>>
    /\ executions = EmptyDict
    /\ agent_execution_history = [a \in AgentIds |-> <<>>]
    /\ contexts = <<NewContext(1)>>
    /\ message_queue = EmptyDict
    /\ message_history = <<>>
    /\ active_collaborations = EmptyDict
    /\ websocket_connections = <<>>
    /\ socket = [w \in WS |-> "idle"]
    /\ workflow = <<>>
    /\ tasks = {}
    /\ loop = [last |-> None, switches |-> 0]
    /\ delivered = [a \in Receivers |-> <<>>]
    /\ published = << <<>> >>
    /\ call = [n |-> 0, op |-> "", agent_id |-> "", result |-> <<>>,
               before |-> [op |-> "", agent_id |-> "", result |-> <<>>]]
    /\ orchestrator = OrchestratorAgent

ApiUpdate(agent_id, confidence) ==
    /\ contexts' = [contexts EXCEPT ![1] =
                      update_context(@, agent_id, <<"data", call.n>>, confidence)]
    /\ published' = [published EXCEPT ![1] =
                      Append(@, [agent_id |-> agent_id, data |-> <<"data", call.n>>,
                                 confidence |-> confidence])]
    /\ Called("update_context", agent_id, <<>>)
    /\ UNCHANGED <<orchestrator, engine_vars, a2a_vars, ws_vars, tasks, delivered>>

ApiInsights(requesting_agent) ==
    /\ Called("get_contextual_insights", requesting_agent,
              <<get_contextual_insights(contexts[1], requesting_agent)>>)
    /\ UNCHANGED <<orchestrator, engine_vars, contexts, a2a_vars, ws_vars, tasks, delivered, published>>

NextMCP ==
    \/ \E agent_id \in Requesters, confidence \in Confidences :
          ApiUpdate(agent_id, confidence)
    \/ \E requesting_agent \in Requesters : ApiInsights(requesting_agent)

SpecMCP == InitMCP /\ [][NextMCP]_vars

\* ------------------------------------------------- lookups, called directly
\* GET /api/incidents/{incident_id}/status, up to the not-found return: the
\* Incident object the route finds.
get_complete_incident_status(incident_id) ==
    IF incident_id \in DOMAIN active_incidents
    THEN <<"found", active_incidents[incident_id]>>
    ELSE LET matches == {n \in 1..Len(incident_history) :
                            incidents[incident_history[n]].id = incident_id}
         IN  IF matches = {} THEN <<"Incident not found">>
             ELSE <<"found", incident_history[CHOOSE n \in matches :
                                                 \A m \in matches : n <= m]>>

LookupIds == {1, 2}

ApiGetContext(context_id) ==
    /\ LoopIdle
    /\ Called("get_context", context_id, <<get_context(context_id)>>)
    /\ UNCHANGED <<orchestrator, engine_vars, contexts, a2a_vars, ws_vars, tasks, delivered, published>>

ApiStatus(incident_id) ==
    /\ LoopIdle
    /\ Called("get_complete_incident_status", incident_id,
              get_complete_incident_status(incident_id))
    /\ UNCHANGED <<orchestrator, engine_vars, contexts, a2a_vars, ws_vars, tasks, delivered, published>>

\* One incident runs undisturbed while the lookups are made.
NextQuery ==
    \/ \E id \in IncidentIds, t \in IncidentTypes :
          trigger_incident_workflow(id, t, MaxWatched)
    \/ \E i \in Objects : WorkflowStart(i)
    \/ \E i \in Objects : LoopHead(i)
    \/ \E i \in Objects : ProcessAndInvoke(i)
    \/ \E i \in Objects : Handler(i, 0)
    \/ \E i \in Objects : Wake(i)
    \/ \E i \in Objects : Complete(i)
    \/ \E i \in Objects : Finalize(i)
    \/ \E context_id \in LookupIds : ApiGetContext(context_id)
    \/ \E incident_id \in LookupIds : ApiStatus(incident_id)

SpecQuery == Init /\ [][NextQuery]_vars

\* ------------------------------------------------- the drain, called directly
\* _process_a2a_messages(agent_id, incident) for an Incident that has no
\* Execution yet and whose mcp_context_id is context_id.
ApiProcess(agent_id, context_id) ==
    /\ LET p == Protocol(message_queue, message_history, active_collaborations)
           messages == get_messages_result(p, agent_id)
           incident == NewIncident(1, "api", context_id)
           mcp_context == get_context(incident.mcp_context_id)
       IN  /\ message_queue' = get_messages(p, agent_id).message_queue
           /\ delivered' = [delivered EXCEPT ![agent_id] = @ \o messages]
           /\ executions' = process_executions(executions, messages, agent_id, incident)
           /\ contexts' = IF mcp_context # None
                          THEN [contexts EXCEPT ![mcp_context] =
                                  process_context(@, messages)]
                          ELSE contexts
           /\ published' = IF mcp_context # None
                           THEN [published EXCEPT ![mcp_context] =
                                   @ \o Forwarded(messages)]
                           ELSE published
    /\ Called("_process_a2a_messages", <<agent_id, context_id>>, <<>>)
    /\ UNCHANGED <<orchestrator, incidents, active_incidents, incident_history,
                   agent_execution_history, workflow, loop, message_history,
                   active_collaborations, ws_vars, tasks>>

\* A data_share message as the handlers build it, with a confidence.
ApiShare(sender, receiver, confidence) ==
    /\ LET p == Protocol(message_queue, message_history, active_collaborations)
           q == share_with(p, sender, <<receiver>>, <<"data", call.n>>, confidence)
       IN  /\ message_queue' = q.message_queue
           /\ message_history' = q.message_history
           /\ tasks' = create_tasks(tasks, notifications(p, q))
    /\ Called("send_message", receiver, <<>>)
    /\ UNCHANGED <<orchestrator, engine_vars, contexts, active_collaborations, ws_vars, delivered,
                   published>>

Sharers == {"pager"}
Processors == {"rca", "validation"}

\* Messages with and without a confidence are queued and drained for an
\* Incident whose Context exists (1) or does not (2).
NextForward ==
    \/ \E sender \in Senders, receiver \in Processors, type \in MessageTypes :
          ApiSend(sender, receiver, type)
    \/ \E sender \in Sharers, receiver \in Processors, confidence \in {95} :
          ApiShare(sender, receiver, confidence)
    \/ \E agent_id \in Processors, context_id \in LookupIds :
          ApiProcess(agent_id, context_id)

SpecForward == InitMCP /\ [][NextForward]_vars

SpecOrch == Init /\ [][NextOrch]_vars

\* ------------------------------------------------------------------ claims
Completed(i) == Range(incidents[i].completed_agents)
Failed(i) == Range(incidents[i].failed_agents)
Recorded(i) == Completed(i) \cup Failed(i)
Listed(i) == Len(incidents[i].completed_agents) + Len(incidents[i].failed_agents)
HasExecution(i, agent_id) == <<i, agent_id>> \in DOMAIN executions
LoopEnded(i) == workflow[i].idx > NumAgents
Reported(i, status) ==
    {a \in AgentIds : HasExecution(i, a) /\ executions[<<i, a>>].status = status}
Count(s, x) == Cardinality({n \in 1..Len(s) : s[n] = x})
SentTo(r) == SelectSeq(message_history, LAMBDA m : m.receiver_agent_id = r)
Queue(r) == Get(message_queue, r, <<>>)

\* C1: in every reachable state of every incident, no stage name is in both
\* the completed list and the failed list, whatever the interleaving of the
\* pipeline with broadcast passes, notification tasks and subscriber failures.
C1_CompletedFailedDisjoint ==
    \A i \in Objects : Completed(i) \cap Failed(i) = {}

\* C2: after each finished iteration of the stage loop the two lists together
\* hold one entry per stage attempted so far, and seven entries when the loop
\* has ended.
C2_OneEntryPerAttempt ==
    \A i \in Objects :
        /\ workflow[i].pc = "loop_head" => Listed(i) = workflow[i].idx - 1
        /\ workflow[i].pc = "complete" => Listed(i) = 7

\* C3: a pipeline that has finished after the last stage leaves the workflow
\* status completed and the lifecycle status resolved when no stage is in the
\* failed list and partially_resolved otherwise; seven successes give
\* resolved, and exactly one error gives partially_resolved with that stage
\* in failed and the six others in completed.
C3_FinalStatus ==
    \A i \in Objects :
        (LoopEnded(i) /\ workflow[i].pc \in Terminal) =>
            /\ incidents[i].workflow_status = "completed"
            /\ incidents[i].status =
                  IF Failed(i) = {} THEN "resolved" ELSE "partially_resolved"
            /\ Reported(i, "success") = AgentIds => incidents[i].status = "resolved"
            /\ \A a \in AgentIds :
                  (Reported(i, "error") = {a} /\ Reported(i, "success") = AgentIds \ {a}) =>
                      /\ incidents[i].status = "partially_resolved"
                      /\ Failed(i) = {a}
                      /\ Completed(i) = AgentIds \ {a}

\* C4: within one incident the stages are attempted one after another in the
\* order monitoring, rca, pager, ticketing, email, remediation, validation: a
\* stage's handler has started only when every earlier stage's outcome is
\* recorded, the recorded stages come in that order, and at most one handler
\* of the incident is in progress.
FixedOrder ==
    <<"monitoring", "rca", "pager", "ticketing", "email", "remediation", "validation">>

InOrder(s) ==
    \A m, n \in 1..Len(s) :
        m < n => \E j, k \in 1..Len(FixedOrder) :
                    j <= k /\ FixedOrder[j] = s[m] /\ FixedOrder[k] = s[n]

C4_StrictlySequential ==
    \A i \in Objects :
        /\ \A k \in 1..Len(FixedOrder) :
              HasExecution(i, FixedOrder[k]) =>
                 \A j \in 1..(k - 1) : FixedOrder[j] \in Recorded(i)
        /\ InOrder(incidents[i].completed_agents)
        /\ InOrder(incidents[i].failed_agents)
        /\ Cardinality(Reported(i, "running")) <= 1

\* A finished run in which one handler raised: seven stages, in order.
C4_Witness ==
    \E i \in Objects :
        /\ workflow[i].pc = "done"
        /\ \A a \in AgentIds : HasExecution(i, a)
        /\ Cardinality(Reported(i, "error")) = 1
        /\ Recorded(i) = AgentIds

\* C5: a stage that fails, by a non-success Execution or by an exception
\* inside the stage loop, is recorded in the failed list and the loop goes
\* on: the run does not end before the loop has passed the seventh stage,
\* and no status becomes failed while the loop is at one of the seven stages.
C5_StageFailureContained ==
    \A i \in Objects :
        (incidents[i].failed_agents # <<>> /\ ~LoopEnded(i)) =>
            /\ workflow[i].pc \notin Terminal
            /\ incidents[i].workflow_status # "failed"
            /\ incidents[i].status # "failed"

\* C6: a Context on which N update_context calls were made, by handlers and
\* by data-share forwarding of concurrently running pipelines, has its
\* creation version plus N, and its insight map holds, for each contributing
\* stage, the payload and confidence of that stage's last call.
LastBy(log, a) ==
    log[CHOOSE n \in 1..Len(log) :
            /\ log[n].agent_id = a
            /\ \A m \in (n + 1)..Len(log) : log[m].agent_id # a]

C6_NoLostUpdate ==
    \A c \in DOMAIN contexts :
        LET log == published[c]
            ctx == contexts[c]
        IN  /\ ctx.context_version = NewContext(None).context_version + Len(log)
            /\ DOMAIN ctx.agent_insights = {log[n].agent_id : n \in 1..Len(log)}
            /\ \A a \in DOMAIN ctx.agent_insights :
                  /\ ctx.agent_insights[a].data = LastBy(log, a).data
                  /\ ctx.agent_insights[a].confidence = LastBy(log, a).confidence
                  /\ ctx.confidence_scores[a] = LastBy(log, a).confidence

\* Two pipelines in flight; a Context has taken a stage's own update and a
\* later forwarded one of the same stage that the other pipeline sent.
C6_Witness ==
    /\ Len(incidents) = 2
    /\ \E c \in DOMAIN contexts : \E m, n \in 1..Len(published[c]) :
          /\ m < n
          /\ published[c][m].agent_id = published[c][n].agent_id
          /\ published[c][n].data[2] # c

\* C7: under any interleaving of the sends and drains of concurrently running
\* pipelines, each message sent to a stage is either exactly once in that
\* stage's queue or was returned by exactly one drain of it; nothing else is
\* in a queue or was returned.
C7_ExactlyOnce ==
    \A r \in Receivers \cup DOMAIN message_queue :
        /\ \A n \in 1..Len(message_history) :
              message_history[n].receiver_agent_id = r =>
                 Count(Queue(r), message_history[n])
                    + Count(Get(delivered, r, <<>>), message_history[n]) = 1
        /\ Range(Queue(r)) \cup Range(Get(delivered, r, <<>>)) \subseteq Range(SentTo(r))

\* Two pipelines in flight; one stage has drained messages of both and has
\* more waiting.
C7_Witness ==
    /\ Len(incidents) = 2
    /\ \E r \in AgentIds :
          /\ Queue(r) # <<>>
          /\ \E m, n \in 1..Len(delivered[r]) :
                delivered[r][m].content # delivered[r][n].content
                /\ delivered[r][m].sender_agent_id = delivered[r][n].sender_agent_id

\* C8: get_messages called twice in a row for one stage, no send in between,
\* returns the empty list the second time; the stage's queue is empty after
\* every get_messages.
C8_SecondDrainEmpty ==
    call.op = "get_messages" =>
        /\ Queue(call.agent_id) = <<>>
        /\ (call.before.op = "get_messages" /\ call.before.agent_id = call.agent_id)
              => call.result = <<>>

\* A drain that returned messages, followed at once by one of the same stage.
C8_Witness ==
    /\ call.op = "get_messages"
    /\ call.before.op = "get_messages"
    /\ call.before.agent_id = call.agent_id
    /\ Len(call.before.result) >= 2
    /\ call.result = <<>>

\* C9: for every receiver, what its drains returned, in the order of the
\* drains, followed by what is waiting in its queue, is the sequence of the
\* messages sent to it in send order; message_history holds every message
\* in send order.
C9_Fifo ==
    /\ \A r \in Receivers : delivered[r] \o Queue(r) = SentTo(r)
    /\ \A n \in 1..Len(message_history) : message_history[n].message_id = n

\* Two pipelines in flight; a stage has drained three messages or more, of
\* more than one sender.
C9_Witness ==
    /\ Len(incidents) = 2
    /\ \E r \in AgentIds :
          /\ Len(delivered[r]) >= 3
          /\ delivered[r][1].sender_agent_id # delivered[r][2].sender_agent_id

\* C10: send_message succeeds for every receiver id, known or not: the
\* message becomes the last entry of the receiver's queue, made if absent,
\* and of message_history, which grows by exactly one; an unknown receiver's
\* queue just grows.
C10_SendNeverFails ==
    [][(call'.n = call.n + 1 /\ call'.op = "send_message") =>
          LET r == call'.agent_id
              message == message_history'[Len(message_history')]
          IN  /\ Len(message_history') = Len(message_history) + 1
              /\ message.receiver_agent_id = r
              /\ r \in DOMAIN message_queue'
              /\ message_queue'[r] = Append(Queue(r), message)
              /\ \A other \in DOMAIN message_queue \ {r} :
                    message_queue'[other] = message_queue[other]]_vars

\* Two sends in a row to an id no stage has: both are waiting in its queue,
\* which no send had made before.
C10_Witness ==
    /\ call.n = 2
    /\ call.op = "send_message"
    /\ call.agent_id = "unknown"
    /\ call.before.op = "send_message"
    /\ "unknown" \notin AgentIds
    /\ Len(Queue("unknown")) = 2
    /\ Len(message_history) = 2

\* C11: for every Context and every requesting stage, the peer insights of
\* get_contextual_insights hold no entry of the requester and no entry of
\* confidence 0.7 or less, and hold the insight of every other stage whose
\* confidence is above 0.7.
Contributors(log) == {log[n].agent_id : n \in 1..Len(log)}

C11_PeerInsightsFiltered ==
    call.op = "get_contextual_insights" =>
        LET peers == call.result[1].peer_insights
            log == published[1]
        IN  /\ call.agent_id \notin DOMAIN peers
            /\ \A a \in DOMAIN peers : peers[a].confidence > 70
            /\ \A a \in Contributors(log) \ {call.agent_id} :
                  LastBy(log, a).confidence > 70 =>
                     /\ a \in DOMAIN peers
                     /\ peers[a].data = LastBy(log, a).data
                     /\ peers[a].confidence = LastBy(log, a).confidence

\* The requester has an insight above 0.7, a peer one at exactly 0.7 and
\* another peer one above: only the last is returned.
C11_Witness ==
    /\ call.op = "get_contextual_insights"
    /\ call.agent_id = "rca"
    /\ DOMAIN contexts[1].agent_insights = {"monitoring", "rca", "unknown"}
    /\ contexts[1].agent_insights["rca"].confidence = 95
    /\ contexts[1].agent_insights["monitoring"].confidence = 70
    /\ DOMAIN call.result[1].peer_insights = {"unknown"}

\* C12: the context confidence of get_contextual_insights is the mean of all
\* confidences recorded in the Context, the requester's and those at or
\* below 0.7 included, and 0.0 when none is recorded.
RECURSIVE LastConfidences(_, _)
LastConfidences(log, agents) ==
    IF agents = {} THEN 0
    ELSE LET a == CHOOSE x \in agents : TRUE
         IN  LastBy(log, a).confidence + LastConfidences(log, agents \ {a})

C12_MeanConfidence ==
    call.op = "get_contextual_insights" =>
        LET mean == call.result[1].context_confidence
            log == published[1]
        IN  IF log = <<>> THEN mean.num = 0 /\ mean.den = 1
            ELSE mean.num * Cardinality(Contributors(log))
                    = LastConfidences(log, Contributors(log)) * mean.den

\* The mean of the requester's 0.95, a peer's 0.7 and a peer's 0.71.
C12_Witness ==
    /\ call.op = "get_contextual_insights"
    /\ call.agent_id = "rca"
    /\ DOMAIN contexts[1].confidence_scores = {"monitoring", "rca", "unknown"}
    /\ contexts[1].confidence_scores["rca"] = 95
    /\ contexts[1].confidence_scores["monitoring"] = 70
    /\ contexts[1].confidence_scores["unknown"] = 71
    /\ call.result[1].context_confidence = Fraction(236, 3)

\* C13: initiate_collaboration, for any initiator and participants, makes one
\* session and sends one collaboration_request to each participant other
\* than the initiator, none to the initiator, each with requires_response
\* true and correlation_id the returned session id: message_history grows by
\* the number of participants other than the initiator.
C13_OneRequestPerParticipant ==
    [][(call'.n = call.n + 1 /\ call'.op = "initiate_collaboration") =>
          LET id == call'.result[1]
              initiator == call'.agent_id
              session == active_collaborations'[id]
              others == SelectSeq(session.participants, LAMBDA x : x # initiator)
              sent == SubSeq(message_history', Len(message_history) + 1,
                             Len(message_history'))
          IN  /\ id \notin DOMAIN active_collaborations
              /\ DOMAIN active_collaborations' = DOMAIN active_collaborations \cup {id}
              /\ session.initiator = initiator
              /\ session.participants \in ParticipantLists
              /\ Len(sent) = Len(others)
              /\ \A k \in 1..Len(sent) :
                    /\ sent[k].receiver_agent_id = others[k]
                    /\ sent[k].receiver_agent_id # initiator
                    /\ sent[k].sender_agent_id = initiator
                    /\ sent[k].message_type = "collaboration_request"
                    /\ sent[k].requires_response
                    /\ sent[k].correlation_id = id]_vars

\* rca has started a session with itself and validation, then one with
\* remediation and validation: one message, then two.
C13_Witness ==
    /\ call.n = 2
    /\ call.op = "initiate_collaboration" /\ call.agent_id = "rca"
    /\ call.before.op = "initiate_collaboration" /\ call.before.agent_id = "rca"
    /\ active_collaborations[call.before.result[1]].participants = <<"rca", "validation">>
    /\ active_collaborations[call.result[1]].participants = <<"remediation", "validation">>
    /\ Len(message_history) = 3
    /\ message_history[2].receiver_agent_id = "remediation"
    /\ message_history[3].receiver_agent_id = "validation"
    /\ message_history[2].correlation_id = call.result[1]
    /\ message_history[3].correlation_id = call.result[1]

\* C14: with two incidents' pipelines running at once on one engine, every
\* Execution in an incident's per-stage map carries that incident's id, and
\* each stage's execution history holds at most one Execution per incident
\* id, whose incident_id names exactly the incident whose pipeline made it.
C14_ExecutionsPartitioned ==
    /\ \A i \in Objects : \A a \in DOMAIN incidents[i].executions :
          executions[incidents[i].executions[a]].incident_id = incidents[i].id
    /\ \A a \in AgentIds :
          LET h == agent_execution_history[a]
          IN  /\ \A m, n \in 1..Len(h) :
                    m # n => executions[h[m]].incident_id # executions[h[n]].incident_id
              /\ \A n \in 1..Len(h) : \A j \in Objects :
                    incidents[j].id = executions[h[n]].incident_id => j = h[n][1]

\* C15: any two trigger calls, however close in time, make incidents of
\* distinct ids, so that a trigger never overwrites another incident's entry
\* in active_incidents and finalizing one incident never removes or fails on
\* another's entry.
C15_UniqueIds ==
    \A i, j \in Objects : i # j => incidents[i].id # incidents[j].id

\* C16: trigger_incident_workflow returns without waiting for the pipeline:
\* when it returns the incident is in active_incidents with workflow status
\* in_progress and status open, its Context is in the registry with the
\* seeded shared knowledge, and no stage has been attempted.
C16_TriggerReturnsAtOnce ==
    [][Len(incidents') = Len(incidents) + 1 =>
          LET i == Len(incidents')
              incident == incidents'[i]
          IN  /\ incident.id \in DOMAIN active_incidents'
              /\ active_incidents'[incident.id] = i
              /\ incident.workflow_status = "in_progress"
              /\ incident.status = "open"
              /\ incident.mcp_context_id \in DOMAIN contexts'
              /\ incident.mcp_context_id \notin DOMAIN contexts
              /\ contexts'[incident.mcp_context_id].incident_id = incident.id
              /\ {"incident_metadata", "baseline_context"}
                    \subseteq contexts'[incident.mcp_context_id].shared_knowledge
              /\ incident.completed_agents = <<>>
              /\ incident.failed_agents = <<>>
              /\ incident.current_agent = ""
              /\ incident.executions = EmptyDict
              /\ \A a \in AgentIds : <<i, a>> \notin DOMAIN executions'
              /\ workflow'[i].pc = "created"]_vars

\* A second incident just triggered, untouched, while the first one's
\* pipeline is in a handler.
C16_Witness ==
    /\ Len(incidents) = 2
    /\ workflow[1].pc = "handler"
    /\ workflow[2].pc = "created"
    /\ incidents[2].id # incidents[1].id
    /\ active_incidents[incidents[2].id] = 2
    /\ incidents[2].completed_agents = <<>>

\* C17: an incident is never in active_incidents and in incident_history at
\* once, is in incident_history at most once, and, once the finalization
\* after the last stage has run, is in incident_history and not in
\* active_incidents.
InActive(i) == \E id \in DOMAIN active_incidents : active_incidents[id] = i

C17_ActiveOrHistory ==
    \A i \in Objects :
        /\ ~(InActive(i) /\ i \in Range(incident_history))
        /\ Count(incident_history, i) <= 1
        /\ (LoopEnded(i) /\ workflow[i].pc \in Terminal) =>
              (i \in Range(incident_history) /\ ~InActive(i))

\* C18: an incident's workflow status goes from in_progress to completed or
\* from in_progress to failed and, once completed or failed, never changes.
C18_WorkflowStatusFinal ==
    [][\A i \in Objects :
          /\ incidents[i].workflow_status \in {"completed", "failed"} =>
                incidents'[i].workflow_status = incidents[i].workflow_status
          /\ incidents'[i].workflow_status \in {"in_progress", "completed", "failed"}]_vars

\* C19: an exception that leaves the stage loop or the finalization makes
\* both the workflow status and the status failed and the failure broadcast
\* is called; an incident is failed in no other way.
FailureBroadcast(i) == workflow[i].site \in {"failed_inner", "failed_outer"}

C19_FailedOnlyByEscape ==
    \A i \in Objects :
        LET failed == incidents[i].workflow_status = "failed" \/ incidents[i].status = "failed"
        IN  /\ failed <=> FailureBroadcast(i)
            /\ failed => incidents[i].workflow_status = "failed" /\ incidents[i].status = "failed"
            /\ workflow[i].pc = "crashed" => failed

\* An exception has left the stage loop after a stage failure: the failure
\* broadcast has returned and both statuses are failed.
C19_Witness ==
    \E i \in Objects :
        /\ workflow[i].pc = "done"
        /\ workflow[i].site = "failed_outer"
        /\ ~LoopEnded(i)
        /\ incidents[i].failed_agents # <<>>
        /\ incidents[i].workflow_status = "failed"
        /\ incidents[i].status = "failed"

\* C20: a broadcast pass sends to every subscriber attached when it starts:
\* a failed send removes that subscriber within the pass and neither keeps
\* the pass from the subscribers left nor removes another subscriber.
C20_PassReachesEveryone ==
    [][/\ \A i \in Objects :
             (workflow[i].pc = "send" /\ workflow'[i] # workflow[i]) =>
                /\ Tail(workflow[i].rest) # <<>> =>
                      (workflow'[i].pc = "send"
                       /\ workflow'[i].rest = Tail(workflow[i].rest))
                /\ Range(websocket_connections) \ Range(websocket_connections')
                      \subseteq {Head(workflow[i].rest)}
       /\ \A rest \in tasks \ tasks' :
             Tail(rest) # <<>> => Tail(rest) \in tasks']_vars

\* C21: when two broadcast passes overlap and both fail to send to the same
\* subscriber, or a detach of that subscriber comes between a pass's copy and
\* its failing send, no pass raises to its caller and no pass removes a
\* subscriber that is already gone.
C21_NoRemoveOfAbsent ==
    /\ \A i \in Objects :
          workflow[i].pc = "send" =>
             SendOutcome(Head(workflow[i].rest)) # "ValueError"
    /\ \A rest \in tasks : SendOutcome(Head(rest)) # "ValueError"
    /\ \A i \in Objects : workflow[i].pc # "crashed"

\* C22: get_context of an id that is not in the registry returns None, and
\* the status route for an id that is neither active nor in the history
\* returns its not-found result; neither raises, neither changes any state.
C22_AbsentIsNotAnError ==
    [][(call'.n = call.n + 1
        /\ call'.op \in {"get_context", "get_complete_incident_status"}) =>
          /\ UNCHANGED <<incidents, active_incidents, incident_history, executions,
                         agent_execution_history, contexts, message_queue,
                         message_history, active_collaborations,
                         websocket_connections, socket, workflow, tasks>>
          /\ call'.op = "get_context" =>
                call'.result = <<IF call'.agent_id \in DOMAIN contexts
                                 THEN call'.agent_id ELSE None>>
          /\ call'.op = "get_complete_incident_status" =>
                ((\A i \in Objects :
                     incidents[i].id = call'.agent_id =>
                        ~InActive(i) /\ i \notin Range(incident_history))
                  <=> call'.result = <<"Incident not found">>)]_vars

\* A Context id and an incident id nothing has are looked up while an
\* incident is in the history and its Context in the registry.
C22_Witness ==
    /\ call.op = "get_complete_incident_status" /\ call.agent_id = 2
    /\ call.result = <<"Incident not found">>
    /\ call.before.op = "get_context" /\ call.before.agent_id = 2
    /\ call.before.result = <<None>>
    /\ incident_history = <<1>>
    /\ DOMAIN contexts = {1}

\* C23: every stage handler returns an Execution of status success or error,
\* never idle or running, with an error message when it is error and
\* progress 100 when it is success; along one Execution the progress never
\* decreases and stays within 0..100, through every value the handler body
\* gives it.
C23_HandlerReturnsOutcome ==
    [][/\ \A e \in DOMAIN executions' :
             /\ executions'[e].progress \in 0..100
             /\ e \in DOMAIN executions =>
                   executions'[e].progress >= executions[e].progress
             /\ e[2] \in DOMAIN incidents'[e[1]].executions =>
                   /\ executions'[e].status \in {"success", "error"}
                   /\ executions'[e].status = "error" => executions'[e].error_message # ""
                   /\ executions'[e].status = "success" => executions'[e].progress = 100
       /\ \A i \in Objects :
             (workflow[i].pc = "handler" /\ workflow'[i].pc # "handler") =>
                 LET steps == progress_steps(agent_sequence[workflow[i].idx],
                                             incidents[i].incident_type, workflow[i].boost)
                 IN  /\ steps[1] = first_progress(agent_sequence[workflow[i].idx])
                     /\ \A n \in 1..Len(steps) : steps[n] \in 0..100
                     /\ \A n \in 1..(Len(steps) - 1) : steps[n] <= steps[n + 1]]_vars

\* One handler has returned an error, the next one a success.
C23_Witness ==
    \E i \in Objects : \E a, b \in DOMAIN incidents[i].executions :
        /\ executions[<<i, a>>].status = "error"
        /\ executions[<<i, a>>].error_message # ""
        /\ executions[<<i, a>>].progress < 100
        /\ executions[<<i, b>>].status = "success"
        /\ executions[<<i, b>>].progress = 100

\* C24: every publish of an insight into a Context, by a stage handler or by
\* data-share forwarding, fires the registry-changed notification: with
\* subscribers attached, the step that publishes leaves a context-update
\* broadcast to them scheduled.
C24_PublishNotifies ==
    [][(/\ \E c \in DOMAIN published : Len(published'[c]) > Len(published[c])
        /\ websocket_connections # <<>>)
       => websocket_connections \in tasks']_vars

\* C25: a stage's Execution ends up with a messages-received count equal to
\* the number of messages drained for the stage before it was invoked, and
\* holds the session id of every drained collaboration request.  (Stated
\* for a single incident, whose drains are all of `delivered`.)
C25_DrainCounted ==
    \A i \in Objects : \A a \in DOMAIN incidents[i].executions :
        LET e == executions[incidents[i].executions[a]]
        IN  /\ e.a2a_messages_received = Len(delivered[a])
            /\ \A n \in 1..Len(delivered[a]) :
                  delivered[a][n].message_type = "collaboration_request" =>
                      Get(delivered[a][n].content, "collaboration_id", None)
                          \in Range(e.collaboration_sessions)

\* C26: every data-share message drained for a stage of an incident whose
\* Context exists is published into that Context under its sender's id with
\* its confidence, 0.8 when it carries none; a later message of a sender
\* replaces the earlier insight and the version grows by one per message.
\* When the Context is absent the messages are dropped and nothing else
\* changes.
C26_DataShareForwarded ==
    [][(call'.n = call.n + 1 /\ call'.op = "_process_a2a_messages") =>
          LET agent_id == call'.agent_id[1]
              c == call'.agent_id[2]
              shares == SelectSeq(Queue(agent_id),
                                  LAMBDA m : m.message_type = "data_share")
              senders == {shares[n].sender_agent_id : n \in 1..Len(shares)}
              last(sender) ==
                  shares[CHOOSE n \in 1..Len(shares) :
                            /\ shares[n].sender_agent_id = sender
                            /\ \A m \in (n + 1)..Len(shares) :
                                  shares[m].sender_agent_id # sender]
              given(m) == IF "confidence" \in DOMAIN m.content
                          THEN m.content.confidence ELSE 80
          IN  /\ agent_id \notin DOMAIN message_queue' \/ message_queue'[agent_id] = <<>>
              /\ executions' = executions
              /\ \A d \in DOMAIN contexts : d # c => contexts'[d] = contexts[d]
              /\ c \notin DOMAIN contexts => contexts' = contexts
              /\ c \in DOMAIN contexts =>
                    /\ contexts'[c].context_version =
                           contexts[c].context_version + Len(shares)
                    /\ DOMAIN contexts'[c].agent_insights =
                           DOMAIN contexts[c].agent_insights \cup senders
                    /\ \A a \in DOMAIN contexts'[c].agent_insights :
                          IF a \in senders
                          THEN /\ contexts'[c].agent_insights[a].data = last(a).content.data
                               /\ contexts'[c].agent_insights[a].confidence = given(last(a))
                               /\ contexts'[c].confidence_scores[a] = given(last(a))
                          ELSE /\ contexts'[c].agent_insights[a] = contexts[c].agent_insights[a]
                               /\ contexts'[c].confidence_scores[a] =
                                      contexts[c].confidence_scores[a]]_vars

\* A drain for an Incident without Context has dropped rca's messages, and
\* the next drain has forwarded validation's message, which carried no
\* confidence, into Context 1.
C26_Witness ==
    /\ call.op = "_process_a2a_messages"
    /\ call.agent_id = <<"validation", 1>>
    /\ call.before.op = "_process_a2a_messages"
    /\ call.before.agent_id = <<"rca", 2>>
    /\ \E n \in 1..Len(delivered["rca"]) : delivered["rca"][n].message_type = "data_share"
    /\ contexts[1].context_version = 2
    /\ DOMAIN contexts[1].agent_insights = {"monitoring"}
    /\ contexts[1].confidence_scores["monitoring"] = 80

\* C27: every stage in an incident's completed or failed list has an
\* Execution in the incident's per-stage map, and the stage's global history
\* holds that Execution.
C27_ListedHasExecution ==
    \A i \in Objects : \A a \in Recorded(i) :
        /\ a \in DOMAIN incidents[i].executions
        /\ incidents[i].executions[a] \in Range(agent_execution_history[a])

\* C28: once the status of an Execution is success or error it never
\* changes again, whatever any incident's drain or pipeline step does.
C28_TerminalStatus ==
    [][\A e \in DOMAIN executions :
          executions[e].status \in {"success", "error"} =>
              /\ e \in DOMAIN executions'
              /\ executions'[e].status = executions[e].status]_vars

\* The rca Execution of the first incident is final, and the second
\* incident's rca stage has since drained a collaboration request.
C28_Witness ==
    /\ <<1, "rca">> \in DOMAIN executions
    /\ executions[<<1, "rca">>].status = "success"
    /\ <<2, "rca">> \in DOMAIN executions
    /\ Len(delivered["rca"]) = 2
    /\ delivered["rca"][2].message_type = "collaboration_request"

\* C29: each stage's inbound queue is drained exactly once per incident run:
\* when the stage loop of a run has ended, every stage has been drained (and
\* its handler invoked) for that run.
C29_DrainedOncePerRun ==
    \A i \in Objects : LoopEnded(i) => \A a \in AgentIds : HasExecution(i, a)

\* C30: a stage handler invocation leaves the incident's lifecycle status,
\* workflow status and current stage as they were.
C30_HandlerLeavesLifecycle ==
    [][\A i \in Objects :
          (workflow[i].pc = "handler" /\ workflow'[i].pc # "handler") =>
              /\ incidents'[i].status = incidents[i].status
              /\ incidents'[i].workflow_status = incidents[i].workflow_status
              /\ incidents'[i].current_agent = incidents[i].current_agent]_vars

\* C31: the version counter of a Context is incremented on every mutation
\* of it: the creation leaves it at 1, and each insight publish, the seeding
\* of shared knowledge at trigger time and the write of the final-resolution
\* entry add one.
C31_VersionCountsMutations ==
    \A c \in DOMAIN contexts :
        contexts[c].context_version =
            1 + Len(published[c])
              + (IF "incident_metadata" \in contexts[c].shared_knowledge THEN 1 ELSE 0)
              + (IF "final_resolution" \in contexts[c].shared_knowledge THEN 1 ELSE 0)

\* C32: every confidence recorded in a Context lies within 0..1 (0..100
\* percent), and the confidence in a stage's insight entry equals the one
\* the confidence-score map has for the stage.
C32_ConfidenceInRange ==
    \A c \in DOMAIN contexts :
        /\ DOMAIN contexts[c].confidence_scores = DOMAIN contexts[c].agent_insights
        /\ \A a \in DOMAIN contexts[c].agent_insights :
              /\ contexts[c].agent_insights[a].confidence \in 0..100
              /\ contexts[c].confidence_scores[a] = contexts[c].agent_insights[a].confidence

\* The rca handler has published its clamped confidence, and forwarding has
\* replaced monitoring's own insight by the 0.92 of its data share.
C32_Witness ==
    \E c \in DOMAIN contexts :
        /\ {"monitoring", "rca"} \subseteq DOMAIN contexts[c].agent_insights
        /\ contexts[c].agent_insights["rca"].confidence = 99
        /\ contexts[c].agent_insights["monitoring"].confidence = 92

\* C33: a collaboration session, once created, stays in the session table
\* as it was created, with status active: no step removes it or changes its
\* status, its participants or its message list, so the number of sessions
\* never decreases.
C33_SessionsStay ==
    [][\A id \in DOMAIN active_collaborations :
          /\ id \in DOMAIN active_collaborations'
          /\ active_collaborations'[id] = active_collaborations[id]
          /\ active_collaborations'[id].status = "active"]_vars

\* Two sessions of different participants exist, and a participant has
\* drained its requests since.
C33_Witness ==
    /\ DOMAIN active_collaborations = {1, 2}
    /\ active_collaborations[1].participants # active_collaborations[2].participants
    /\ active_collaborations[1].status = "active"
    /\ call.op = "get_messages"
    /\ Len(call.result) = 2
    /\ \A n \in 1..2 : call.result[n].message_type = "collaboration_request"

\* C34: under fair scheduling, with every handler, sleep and subscriber send
\* returning or failing, the pipeline run of every triggered incident
\* eventually ends with workflow status completed or failed.  (A run the
\* loop can no longer turn to, its MaxSwitches turns being used up on
\* another run, is left out.)
RunOver(i) ==
    /\ Len(incidents) >= i
    /\ workflow[i].pc \in Terminal
    /\ incidents[i].workflow_status \in {"completed", "failed"}

OutOfTurns(i) == loop.switches >= MaxSwitches /\ loop.last \notin {None, i}

C34_RunTerminates ==
    \A i \in 1..MaxWatched : (Len(incidents) >= i) ~> (RunOver(i) \/ OutOfTurns(i))

\* A run is over, as failed, after a broadcast raised past its first stage.
C34_Witness ==
    /\ Len(incidents) >= 1
    /\ workflow[1].pc \in Terminal
    /\ incidents[1].workflow_status = "failed"
    /\ Len(incidents[1].completed_agents) >= 1

\* C35: every insight in an incident's Context comes from that incident's
\* own run: a payload forwarded into the Context of incident i was sent by a
\* handler while it processed incident i, never during another incident's
\* run.  (Every payload a handler builds names the incident it is about.)
C35_NoCrossIncidentForwarding ==
    \A i \in Objects :
        LET c == incidents[i].mcp_context_id
        IN  \A n \in 1..Len(published[c]) : published[c][n].data[2] = i

\* C36: every message a handler has sent is addressed to a stage later in
\* the fixed order than its sender, and once every pipeline has been through
\* its seven stages every inbound queue is empty.
Position(agent_id) == CHOOSE n \in 1..NumAgents : agent_sequence[n] = agent_id

C36_AllDrainedAtEnd ==
    /\ \A n \in 1..Len(message_history) :
          Position(message_history[n].sender_agent_id)
              < Position(message_history[n].receiver_agent_id)
    /\ (Objects # {} /\ \A i \in Objects : LoopEnded(i)) =>
          \A r \in AgentIds : Queue(r) = <<>>

\* C37: the messages-sent count of every recorded Execution equals the
\* number of messages its handler appended to the global history with the
\* stage as sender, those sent through initiate_collaboration included.
\* (Stated for a single incident, whose handlers are the only senders.)
C37_SentCounted ==
    \A i \in Objects : \A a \in DOMAIN incidents[i].executions :
        executions[incidents[i].executions[a]].a2a_messages_sent =
            Cardinality({n \in 1..Len(message_history) :
                            message_history[n].sender_agent_id = a})

\* C38: in every state, an incident whose workflow status is in_progress
\* has lifecycle status open.
C38_OpenWhileInProgress ==
    \A i \in Objects :
        incidents[i].workflow_status = "in_progress" => incidents[i].status = "open"

\* C39: every collaboration-request message in the global history carries a
\* correlation id, and a collaboration id in its content, naming a session
\* that is in the session table.
C39_RequestsNameSession ==
    \A n \in 1..Len(message_history) :
        message_history[n].message_type = "collaboration_request" =>
            /\ message_history[n].correlation_id \in DOMAIN active_collaborations
            /\ Get(message_history[n].content, "collaboration_id", None)
                   \in DOMAIN active_collaborations

\* C40: OrchestratorAgent.process looks at the steps in the order
\* monitoring, rca, pager, ticketing, email, calls the process of those that
\* are registered and passes over the others; it stops at the first step
\* whose result has status error, so that no later step is called and the
\* returned workflow results are exactly the called steps up to and
\* including that one; its own status ends as success, or as error when an
\* exception was raised.
Invoked(o) == SelectSeq(o.visited, LAMBDA v : v.kind = "invoked")

C40_OrchestratorStopsAtError ==
    [][LET o == orchestrator
           q == orchestrator'
           order == <<"monitoring", "rca", "pager", "ticketing", "email">>
           base == IF q.runs = o.runs THEN Len(o.visited) ELSE 0
       IN  (q.visited # o.visited \/ q.pc # o.pc) =>
           /\ Len(q.visited) <= Len(order)
           /\ \A n \in 1..Len(q.visited) :
                 /\ q.visited[n].step = order[n]
                 /\ IF n <= base THEN q.visited[n] = o.visited[n]
                    ELSE (q.visited[n].kind = "invoked") <=> (order[n] \in q.agents)
           /\ \A n \in 1..(Len(q.workflow_results) - 1) :
                 q.workflow_results[n].status # "error"
           /\ \A n \in 1..Len(q.workflow_results) :
                 q.workflow_results[n].step = Invoked(q)[n].step
           /\ q.pc = "await" => Len(Invoked(q)) = Len(q.workflow_results) + 1
           /\ q.pc = "returned" =>
                 /\ q.status \in {"success", "error"}
                 /\ q.status = "error" <=> q.result[1].status = "error"
                 /\ q.status = "success" =>
                       /\ q.result[1].workflow_results = q.workflow_results
                       /\ Len(Invoked(q)) = Len(q.workflow_results)
                       /\ \/ Len(q.visited) = Len(order)
                          \/ q.workflow_results[Len(q.workflow_results)].status = "error"]_vars

\* With rca unregistered, monitoring has succeeded and pager has returned an
\* error: the run is over as success, ticketing and email never called.
C40_Witness ==
    /\ orchestrator.pc = "returned"
    /\ orchestrator.status = "success"
    /\ {"ticketing", "email"} \subseteq orchestrator.agents
    /\ orchestrator.workflow_results =
           <<[step |-> "monitoring", status |-> "success"],
             [step |-> "pager", status |-> "error"]>>
    /\ Len(orchestrator.visited) = 3

=============================================================================
